---------------------------- MODULE Spec2Model ----------------------------
(***************************************************************************)
(* A state-machine model of iter-ts (class Iter, src/src/index.ts).        *)
(*                                                                         *)
(* An Iter holds one generator factory.  A combinator wraps the receiver's *)
(* factory in a new generator function; calling a factory creates a        *)
(* generator object (a traversal) whose body runs only inside next().      *)
(*                                                                         *)
(* In the model an Iter is the list of stages composed over the source; a  *)
(* traversal is one frame per generator object of the chain (frame 1 is    *)
(* the source generator, frame k+1 the generator of stage k).  One call of *)
(* next() on the outermost generator is one atomic step (the program is    *)
(* synchronous and single-threaded); everything it does inside, in order,  *)
(* is appended to the event log.                                           *)
(***************************************************************************)
EXTENDS Integers, Sequences, FiniteSets, TLC

\* ------------------------------------------------------------------ bounds
MaxLen == 3        \* longest source array / largest repeat count
MaxStages == 2     \* most combinators chained on the source
MaxTake == 2       \* largest count given to take()
MaxTrav == 2       \* traversals opened in one run
MaxRange == 6      \* an unbounded range is followed no further than this
MaxAbs == 3        \* range(start, end) is tried for start, end in -MaxAbs..MaxAbs
MaxMutations == 2  \* changes the caller makes to the array given to fromArray

\* ------------------------------------------------------------------- state
VARIABLES
    source,   \* what the static constructor closed over; the one generator
              \* object of a source that can be traversed once is part of it
    iters,    \* the Iter objects at the end of the chain: each its stages
              \* (one Iter; the two of a partition)
    trav,     \* the traversals: the generator objects a terminal operation
              \* or [Symbol.iterator]() created, and what it has got so far
    log,      \* log[t]: every yield and callback invocation of traversal t,
              \* in order; log[0]: what happens outside any traversal
    raises    \* the element values on which the caller's callbacks throw

vars == <<source, iters, trav, log, raises>>

\* --------------------------------------------------------------- callbacks
\* The caller-supplied functions, named; the arrow functions of index.spec.ts.
Vals == {1, 2}
Mappers == {"inc", "dbl"}
Predicates == {"even"}
Reducers == {"add", "sub"}
Folders == Reducers \cup {"shift"}
Initials == {10}

\* (x) => x * 2, (x) => x + 1
Mapper(fn, x) == IF fn = "dbl" THEN x * 2 ELSE x + 1

\* (x) => x % 2 === 0
Predicate(fn, x) == CASE fn = "even" -> x % 2 = 0

\* (x, y) => x + y, (x, y) => x - y, (x, y) => x * 2 + y
Reducer(fn, acc, x) ==
    IF fn = "add" THEN acc + x ELSE IF fn = "shift" THEN acc * 2 + x ELSE acc - x

\* ------------------------------------------------------------------ values
\* An element in flight: its value v and, for the log only, the index o of
\* the source element it was last derived from (counted from 0 within the
\* traversal: the o-th element the source handed to it).
Item(v, o) == [v |-> v, o |-> o]
NoItem == Item(0, 0)

\* One logged event of a traversal: generator st (0 = the source, k = stage
\* k, Len(stages)+1 = the terminal operation) yields an element ("yield") or
\* invokes its callback on one ("call").
Event(ev, st, it) == [ev |-> ev, st |-> st, v |-> it.v, o |-> it.o]

\* ------------------------------------------------------------------ frames
\* A generator object: where it is suspended (start: created, body not yet
\* entered; yield: suspended at its yield; done: completed) and its locals.
Frame(pc, i, val, arr) == [pc |-> pc, i |-> i, val |-> val, arr |-> arr]
NewFrame == Frame("start", 0, 0, <<>>)

\* ----------------------------------------------------------------- sources
\* What a static constructor closed over.  once: what the caller gave can be
\* traversed only once (fromIterable given a generator object, fromGenerator
\* given a function returning the same generator object at every call); gen
\* is then that one generator object, which every traversal of the Iter pulls.
Source(kind, items, a, b, inf, once) ==
    [kind |-> kind, items |-> items, a |-> a, b |-> b, inf |-> inf,
     once |-> once, gen |-> NewFrame]

ArraySource(items) == Source("array", items, 0, 0, FALSE, FALSE)
RangeSource(start, end) == Source("range", <<>>, start, end, FALSE, FALSE)
\* end = +Infinity
RangeToInfinity(start) == Source("range", <<>>, start, 0, TRUE, FALSE)
RepeatSource(item, n) == Source("repeat", <<>>, item, n, FALSE, FALSE)
\* Iter.fromIterable(source): source an array or a string (once = FALSE), or a
\* generator object g() (once = TRUE), of the elements items
IterableSource(items, once) == Source("iterable", items, 0, 0, FALSE, once)
\* Iter.fromGenerator(factory): factory a generator function (once = FALSE),
\* or () => one for a generator object one (once = TRUE), of the elements items
GeneratorSource(items, once) == Source("generator", items, 0, 0, FALSE, once)

Arrays == UNION {[1..n -> Vals] : n \in 0..MaxLen}

\* What the caller's iterables and generators produce: 1, 2, 1, ... and
\* 2, 1, 2, ...
Produced == {[i \in 1..MaxLen |-> IF i % 2 = 1 THEN v ELSE 3 - v] : v \in Vals}

Sources ==
    {ArraySource(s) : s \in Arrays}
    \cup {RangeToInfinity(0), RangeSource(0, -2), RangeSource(1, 3)}
    \cup {RepeatSource(2, MaxLen)}
    \cup {IterableSource(s, once) : s \in Produced, once \in BOOLEAN}
    \cup {GeneratorSource(s, once) : s \in Produced, once \in BOOLEAN}

\* ------------------------------------------------------------------ stages
Stage(op, fn, n) == [op |-> op, fn |-> fn, n |-> n]

\* The element type of an Iter: pairwise() makes Iter<[A, A]>, enumerate()
\* Iter<[number, A]>; the numeric callbacks type-check on Iter<number> only.
IsNum(stgs) == \A k \in 1..Len(stgs) : stgs[k].op \notin {"pairwise", "enumerate"}

\* Mutant of Factory: scan's accumulator declared outside the generator
\* function, so that a second traversal goes on from the first one's value.
Factory_hoisted(stgs) ==
    [k \in 1..(Len(stgs) + 1) |->
        IF k > 1 /\ stgs[k-1].op = "scan"
        THEN Frame("start", 0,
                   IF trav[1].st = "done" /\ k \in DOMAIN trav[1].fr
                   THEN trav[1].fr[k].val ELSE stgs[k-1].n, <<>>)
        ELSE NewFrame]

\* Mutant of Factory: the Iter keeps one generator object instead of a
\* factory, so that a second traversal goes on where the first one is.
Factory_shared(stgs) ==
    IF trav[1].st # "idle" /\ Len(trav[1].fr) = Len(stgs) + 1 THEN trav[1].fr
    ELSE [k \in 1..(Len(stgs) + 1) |->
            IF k > 1 /\ stgs[k-1].op = "scan" THEN Frame("start", 0, stgs[k-1].n, <<>>)
            ELSE NewFrame]

\* this.factory(): a fresh generator object for every generator function of
\* the chain.  Scan's accumulator starts at its initial value.
Factory(stgs) ==
    [k \in 1..(Len(stgs) + 1) |->
        IF k > 1 /\ stgs[k-1].op = "scan" THEN Frame("start", 0, stgs[k-1].n, <<>>)
        ELSE NewFrame]

\* What one next() gives back: the frames and log after it, and either done
\* or the yielded item.  stuck: the pull ran past MaxRange on an unbounded
\* range (outside the model).  thrown: next() threw instead of returning.
Result(fr, h, done, item) ==
    [fr |-> fr, log |-> h, done |-> done, item |-> item, stuck |-> FALSE,
     thrown |-> FALSE]

\* generator k returns: it is completed
Return(k, fr, h) == Result([fr EXCEPT ![k+1].pc = "done"], h, TRUE, NoItem)

\* generator k yields item
Yield(c, k, fr, h, item) ==
    Result([fr EXCEPT ![k+1].pc = "yield"],
           Append(h, Event("yield", k, item)), FALSE, item)

\* A for-of loop left by break or return calls return() on its iterator:
\* every generator below stage k is completed (their for-of loops do the same).
Close(k, fr) == [j \in 1..Len(fr) |-> IF j <= k THEN [fr[j] EXCEPT !.pc = "done"] ELSE fr[j]]

\* The callback of generator k (of the terminal operation, k = Len(stgs) + 1)
\* throws when called on item.  The callbacks here take numbers: what
\* pairwise() and enumerate() yield are pairs.
Raises(c, k, item) ==
    /\ c.raises # {}
    /\ IsNum(SubSeq(c.stgs, 1, k - 1))
    /\ item.v \in c.raises

\* The callback of generator k throws on item, inside the body of its for-of
\* loop: the loop calls return() on the parent's generator, and the
\* exception leaves generator k, which is completed by it.
Raise(k, fr, h, item) ==
    [Result(Close(k + 1, fr), Append(h, Event("raise", k, item)), FALSE, NoItem)
        EXCEPT !.thrown = TRUE]

\* next() of generator k's parent threw (r): the exception is not caught in
\* generator k, which is completed by it.
Thrown(k, r) == [r EXCEPT !.fr = Close(k + 1, r.fr)]

\* -------------------------------------------------------------- generators
\* c = [src, stgs]: the source and the stages of the Iter being traversed.
\* Generator 0 is the source's, generator k stage k's.
RECURSIVE Next(_, _, _, _)
RECURSIVE filter(_, _, _, _)
RECURSIVE truthy(_, _, _, _)
RECURSIVE falsy(_, _, _, _)
RECURSIVE pairwise(_, _, _, _)
RECURSIVE drain(_, _, _, _)
RECURSIVE map_swallow(_, _, _, _)
RECURSIVE falsy_unnegated(_, _, _, _)
RECURSIVE pairwise_disjoint(_, _, _, _)

\* The array as it was before the change e the caller made to it.
Undo(items, e) ==
    CASE e.ev = "push" -> SubSeq(items, 1, Len(items) - 1)
      [] e.ev = "pop" -> Append(items, e.v)
      [] OTHER -> [items EXCEPT ![e.o + 1] = e.v]

RECURSIVE Original(_, _)
Original(items, changes) ==
    IF changes = <<>> THEN items
    ELSE Original(Undo(items, changes[Len(changes)]),
                  SubSeq(changes, 1, Len(changes) - 1))

\* Mutant of fromArray: the array copied when the Iter is made,
\* const copy = [...source], and the copy traversed.
fromArray_copy(c, fr, h) ==
    LET f == fr[1]
        copy == Original(c.src.items, log[0])
        i == IF f.pc = "start" THEN 0 ELSE f.i + 1
    IN  IF i < Len(copy)
        THEN Yield(c, 0, [fr EXCEPT ![1].i = i], h, Item(copy[i + 1], i))
        ELSE Return(0, [fr EXCEPT ![1].i = i], h)

\* Iter.fromArray: for (let i = 0; i < source.length; i++) yield source[i]
fromArray(c, fr, h) ==
    LET f == fr[1]
        i == IF f.pc = "start" THEN 0 ELSE f.i + 1
    IN  IF i < Len(c.src.items)
        THEN Yield(c, 0, [fr EXCEPT ![1].i = i], h, Item(c.src.items[i + 1], i))
        ELSE Return(0, [fr EXCEPT ![1].i = i], h)

\* Mutant of range: the loops tested with <= and >=, so that end is produced.
range_inclusive(c, fr, h) ==
    LET f == fr[1]
        start == c.src.a
        end == c.src.b
        isAsc == c.src.inf \/ start < end
        i == IF f.pc = "start" THEN start ELSE IF isAsc THEN f.i + 1 ELSE f.i - 1
        more == IF isAsc THEN c.src.inf \/ i <= end ELSE i >= end
        o == IF isAsc THEN i - start ELSE start - i
    IN  IF more /\ c.src.inf /\ i > MaxRange
        THEN [Result(fr, h, FALSE, NoItem) EXCEPT !.stuck = TRUE]
        ELSE IF more
        THEN Yield(c, 0, [fr EXCEPT ![1].i = i], h, Item(i, o))
        ELSE Return(0, [fr EXCEPT ![1].i = i], h)

\* Iter.range: ascending while i < end when start < end, else descending
\* while i > end.  Every number is below +Infinity.
range(c, fr, h) ==
    LET f == fr[1]
        start == c.src.a
        end == c.src.b
        isAsc == c.src.inf \/ start < end
        i == IF f.pc = "start" THEN start ELSE IF isAsc THEN f.i + 1 ELSE f.i - 1
        more == IF isAsc THEN c.src.inf \/ i < end ELSE i > end
        o == IF isAsc THEN i - start ELSE start - i
    IN  IF more /\ c.src.inf /\ i > MaxRange
        THEN [Result(fr, h, FALSE, NoItem) EXCEPT !.stuck = TRUE]
        ELSE IF more
        THEN Yield(c, 0, [fr EXCEPT ![1].i = i], h, Item(i, o))
        ELSE Return(0, [fr EXCEPT ![1].i = i], h)

\* Iter.repeat: for (let i = 0; i < repetitions; i++) yield item
repeat(c, fr, h) ==
    LET f == fr[1]
        i == IF f.pc = "start" THEN 0 ELSE f.i + 1
    IN  IF i < c.src.b
        THEN Yield(c, 0, [fr EXCEPT ![1].i = i], h, Item(c.src.a, i))
        ELSE Return(0, [fr EXCEPT ![1].i = i], h)

\* How many elements the source has handed to the traversal whose log is h.
Handed(h) == Cardinality({p \in 1..Len(h) : h[p].ev = "yield" /\ h[p].st = 0})

\* Iter.fromIterable: for (const item of source) yield item.  The loop hands
\* on what source's iterator produces (the elements c.src.items, then done),
\* ends when it is done and passes a return() on to it (Close), so that the
\* generator is as far as that iterator is.  Frame 1 stands for the pair: a
\* new one in every traversal of an array or a string, the only one of a
\* generator object (Frames), which goes on where it is.
fromIterable(c, fr, h) ==
    LET f == fr[1]
        i == IF f.pc = "start" THEN 0 ELSE f.i + 1
    IN  IF i < Len(c.src.items)
        THEN Yield(c, 0, [fr EXCEPT ![1].i = i], h, Item(c.src.items[i + 1], Handed(h)))
        ELSE Return(0, [fr EXCEPT ![1].i = i], h)

\* Iter.fromGenerator: new Iter(factory).  The generator of the source is the
\* one the caller's factory returns, of the elements c.src.items: a new
\* generator at every call, or the same object every time (Frames).
fromGenerator(c, fr, h) ==
    LET f == fr[1]
        i == IF f.pc = "start" THEN 0 ELSE f.i + 1
    IN  IF i < Len(c.src.items)
        THEN Yield(c, 0, [fr EXCEPT ![1].i = i], h, Item(c.src.items[i + 1], Handed(h)))
        ELSE Return(0, [fr EXCEPT ![1].i = i], h)

\* Mutant of map: the parent is drained into a buffer first, and the buffer
\* mapped afterwards.
drain(c, k, fr, h) ==
    LET r == Next(c, k - 1, fr, h)
    IN  IF r.stuck \/ r.done THEN r
        ELSE drain(c, k, [r.fr EXCEPT ![k + 1].arr = Append(@, r.item)], r.log)

map_batch(c, k, fr, h) ==
    LET d == IF fr[k + 1].pc = "start" THEN drain(c, k, fr, h)
             ELSE Result(fr, h, TRUE, NoItem)
        arr == d.fr[k + 1].arr
    IN  IF d.stuck THEN d
        ELSE IF arr = <<>> THEN Return(k, d.fr, d.log)
        ELSE Yield(c, k, [d.fr EXCEPT ![k + 1].arr = Tail(arr)],
                   Append(d.log, Event("call", k, Head(arr))),
                   Item(Mapper(c.stgs[k].fn, Head(arr).v), Head(arr).o))

\* Mutant of map: the callback called inside try/catch, an element it throws
\* on skipped.
map_swallow(c, k, fr, h) ==
    LET r == Next(c, k - 1, fr, h)
        lg == Append(r.log, Event("call", k, r.item))
    IN  IF r.stuck THEN r
        ELSE IF r.thrown THEN Thrown(k, r)
        ELSE IF r.done THEN Return(k, r.fr, r.log)
        ELSE IF Raises(c, k, r.item)
        THEN map_swallow(c, k, r.fr, Append(lg, Event("raise", k, r.item)))
        ELSE Yield(c, k, r.fr, lg, Item(Mapper(c.stgs[k].fn, r.item.v), r.item.o))

\* Iter.map: for (const item of context.factory()) yield predicate(item)
map(c, k, fr, h) ==
    LET r == Next(c, k - 1, fr, h)
    IN  IF r.stuck THEN r
        ELSE IF r.thrown THEN Thrown(k, r)
        ELSE IF r.done THEN Return(k, r.fr, r.log)
        ELSE IF Raises(c, k, r.item)
        THEN Raise(k, r.fr, Append(r.log, Event("call", k, r.item)), r.item)
        ELSE Yield(c, k, r.fr, Append(r.log, Event("call", k, r.item)),
                   Item(Mapper(c.stgs[k].fn, r.item.v), r.item.o))

\* Iter.filter: yield item only if predicate(item); otherwise pull again
filter(c, k, fr, h) ==
    LET r == Next(c, k - 1, fr, h)
        lg == Append(r.log, Event("call", k, r.item))
    IN  IF r.stuck THEN r
        ELSE IF r.thrown THEN Thrown(k, r)
        ELSE IF r.done THEN Return(k, r.fr, r.log)
        ELSE IF Raises(c, k, r.item)
        THEN Raise(k, r.fr, Append(r.log, Event("call", k, r.item)), r.item)
        ELSE IF Predicate(c.stgs[k].fn, r.item.v) THEN Yield(c, k, r.fr, lg, r.item)
        ELSE filter(c, k, r.fr, lg)

\* Mutant of take: the bound tested with > instead of >=.
take_offbyone(c, k, fr, h) ==
    LET r == Next(c, k - 1, fr, h)
        i == fr[k + 1].i
    IN  IF r.stuck THEN r
        ELSE IF r.done THEN Return(k, r.fr, r.log)
        ELSE IF i > c.stgs[k].n THEN Return(k, Close(k, r.fr), r.log)
        ELSE Yield(c, k, [r.fr EXCEPT ![k + 1].i = i + 1], r.log, r.item)

\* Mutant of take: the counter incremented before the bound is tested, so
\* that the n-th element is dropped.
take_preincrement(c, k, fr, h) ==
    LET r == Next(c, k - 1, fr, h)
        i == fr[k + 1].i + 1
    IN  IF r.stuck THEN r
        ELSE IF r.done THEN Return(k, r.fr, r.log)
        ELSE IF i >= c.stgs[k].n THEN Return(k, Close(k, r.fr), r.log)
        ELSE Yield(c, k, [r.fr EXCEPT ![k + 1].i = i], r.log, r.item)

\* Iter.take: let i = 0; for (item of parent) { if (i >= count) break; i++; yield item }
take(c, k, fr, h) ==
    LET r == Next(c, k - 1, fr, h)
        i == fr[k + 1].i
    IN  IF r.stuck THEN r
        ELSE IF r.thrown THEN Thrown(k, r)
        ELSE IF r.done THEN Return(k, r.fr, r.log)
        ELSE IF i >= c.stgs[k].n THEN Return(k, Close(k, r.fr), r.log)
        ELSE Yield(c, k, [r.fr EXCEPT ![k + 1].i = i + 1], r.log, r.item)

\* Mutant of pairwise: arr.splice(0, 2), which gives disjoint pairs.
pairwise_disjoint(c, k, fr, h) ==
    LET f == fr[k + 1]
        spliced == IF f.pc = "yield" THEN <<>> ELSE f.arr
        r == Next(c, k - 1, [fr EXCEPT ![k + 1] = Frame("run", f.i, f.val, spliced)], h)
        arr == Append(spliced, r.item)
        fr2 == [r.fr EXCEPT ![k + 1].arr = arr]
    IN  IF r.stuck THEN r
        ELSE IF r.done THEN Return(k, r.fr, r.log)
        ELSE IF Len(arr) = 2
        THEN Yield(c, k, fr2, r.log, Item(<<arr[1].v, arr[2].v>>, arr[2].o))
        ELSE pairwise_disjoint(c, k, fr2, r.log)

\* Iter.pairwise: arr.push(item); if (arr.length == 2) { yield clone(arr); arr.splice(0, 1) }
pairwise(c, k, fr, h) ==
    LET f == fr[k + 1]
        spliced == IF f.pc = "yield" THEN Tail(f.arr) ELSE f.arr
        r == Next(c, k - 1, [fr EXCEPT ![k + 1] = Frame("run", f.i, f.val, spliced)], h)
        arr == Append(spliced, r.item)
        fr2 == [r.fr EXCEPT ![k + 1].arr = arr]
    IN  IF r.stuck THEN r
        ELSE IF r.thrown THEN Thrown(k, r)
        ELSE IF r.done THEN Return(k, r.fr, r.log)
        ELSE IF Len(arr) = 2
        THEN Yield(c, k, fr2, r.log, Item(<<arr[1].v, arr[2].v>>, arr[2].o))
        ELSE pairwise(c, k, fr2, r.log)

\* Mutant of enumerate: the index is the element's position in the source,
\* not the count of elements pulled from the parent.
enumerate_source_index(c, k, fr, h) ==
    LET r == Next(c, k - 1, fr, h)
    IN  IF r.stuck THEN r
        ELSE IF r.done THEN Return(k, r.fr, r.log)
        ELSE Yield(c, k, [r.fr EXCEPT ![k + 1].i = r.item.o], r.log,
                   Item(<<r.item.o, r.item.v>>, r.item.o))

\* Iter.enumerate (dist): let i = 0; for (item of parent) { yield [i, item]; i++ }
enumerate(c, k, fr, h) ==
    LET f == fr[k + 1]
        i == IF f.pc = "yield" THEN f.i + 1 ELSE f.i
        r == Next(c, k - 1, fr, h)
    IN  IF r.stuck THEN r
        ELSE IF r.thrown THEN Thrown(k, r)
        ELSE IF r.done THEN Return(k, [r.fr EXCEPT ![k + 1].i = i], r.log)
        ELSE Yield(c, k, [r.fr EXCEPT ![k + 1].i = i], r.log,
                   Item(<<i, r.item.v>>, r.item.o))

\* Mutant of scan: yield val before it is updated, so that the initial value
\* comes out first.
scan_initial_first(c, k, fr, h) ==
    LET r == Next(c, k - 1, fr, h)
        val == Reducer(c.stgs[k].fn, fr[k + 1].val, r.item.v)
    IN  IF r.stuck THEN r
        ELSE IF r.done THEN Return(k, r.fr, r.log)
        ELSE Yield(c, k, [r.fr EXCEPT ![k + 1].val = val],
                   Append(r.log, Event("call", k, r.item)),
                   Item(fr[k + 1].val, r.item.o))

\* Iter.scan: let val = initial; for (item of parent) { val = scanner(val, item); yield val }
scan(c, k, fr, h) ==
    LET r == Next(c, k - 1, fr, h)
        val == Reducer(c.stgs[k].fn, fr[k + 1].val, r.item.v)
    IN  IF r.stuck THEN r
        ELSE IF r.thrown THEN Thrown(k, r)
        ELSE IF r.done THEN Return(k, r.fr, r.log)
        ELSE IF Raises(c, k, r.item)
        THEN Raise(k, r.fr, Append(r.log, Event("call", k, r.item)), r.item)
        ELSE Yield(c, k, [r.fr EXCEPT ![k + 1].val = val],
                   Append(r.log, Event("call", k, r.item)), Item(val, r.item.o))

\* Mutant of inspect: yield item first and call inspector(item) when the
\* generator is resumed.
inspect_late(c, k, fr, h) ==
    LET f == fr[k + 1]
        h1 == IF f.pc = "yield" THEN Append(h, Event("call", k, f.arr[1])) ELSE h
        r == Next(c, k - 1, fr, h1)
    IN  IF r.stuck THEN r
        ELSE IF r.done THEN Return(k, r.fr, r.log)
        ELSE Yield(c, k, [r.fr EXCEPT ![k + 1].arr = <<r.item>>], r.log, r.item)

\* Iter.inspect: for (item of parent) { inspector(item); yield item }
inspect(c, k, fr, h) ==
    LET r == Next(c, k - 1, fr, h)
    IN  IF r.stuck THEN r
        ELSE IF r.thrown THEN Thrown(k, r)
        ELSE IF r.done THEN Return(k, r.fr, r.log)
        ELSE IF Raises(c, k, r.item)
        THEN Raise(k, r.fr, Append(r.log, Event("call", k, r.item)), r.item)
        ELSE Yield(c, k, r.fr, Append(r.log, Event("call", k, r.item)), r.item)

\* Iter.partition, first generator: yield item if partitionFn(item)
truthy(c, k, fr, h) ==
    LET r == Next(c, k - 1, fr, h)
        lg == Append(r.log, Event("call", k, r.item))
    IN  IF r.stuck THEN r
        ELSE IF r.thrown THEN Thrown(k, r)
        ELSE IF r.done THEN Return(k, r.fr, r.log)
        ELSE IF Raises(c, k, r.item)
        THEN Raise(k, r.fr, Append(r.log, Event("call", k, r.item)), r.item)
        ELSE IF Predicate(c.stgs[k].fn, r.item.v) THEN Yield(c, k, r.fr, lg, r.item)
        ELSE truthy(c, k, r.fr, lg)

\* Mutant of falsy: the negation forgotten.
falsy_unnegated(c, k, fr, h) ==
    LET r == Next(c, k - 1, fr, h)
        lg == Append(r.log, Event("call", k, r.item))
    IN  IF r.stuck THEN r
        ELSE IF r.done THEN Return(k, r.fr, r.log)
        ELSE IF Predicate(c.stgs[k].fn, r.item.v) THEN Yield(c, k, r.fr, lg, r.item)
        ELSE falsy_unnegated(c, k, r.fr, lg)

\* Iter.partition, second generator: yield item if !partitionFn(item)
falsy(c, k, fr, h) ==
    LET r == Next(c, k - 1, fr, h)
        lg == Append(r.log, Event("call", k, r.item))
    IN  IF r.stuck THEN r
        ELSE IF r.thrown THEN Thrown(k, r)
        ELSE IF r.done THEN Return(k, r.fr, r.log)
        ELSE IF Raises(c, k, r.item)
        THEN Raise(k, r.fr, Append(r.log, Event("call", k, r.item)), r.item)
        ELSE IF ~Predicate(c.stgs[k].fn, r.item.v) THEN Yield(c, k, r.fr, lg, r.item)
        ELSE falsy(c, k, r.fr, lg)

\* generator.next() on generator k of the chain: a completed generator stays
\* done, any other resumes its body up to the next yield or its end.
Next(c, k, fr, h) ==
    IF fr[k + 1].pc = "done" THEN Result(fr, h, TRUE, NoItem)
    ELSE IF k = 0 THEN
        CASE c.src.kind = "array" -> fromArray(c, fr, h)
          [] c.src.kind = "range" -> range(c, fr, h)
          [] c.src.kind = "iterable" -> fromIterable(c, fr, h)
          [] c.src.kind = "generator" -> fromGenerator(c, fr, h)
          [] OTHER -> repeat(c, fr, h)
    ELSE
        CASE c.stgs[k].op = "map" -> map(c, k, fr, h)
          [] c.stgs[k].op = "filter" -> filter(c, k, fr, h)
          [] c.stgs[k].op = "take" -> take(c, k, fr, h)
          [] c.stgs[k].op = "pairwise" -> pairwise(c, k, fr, h)
          [] c.stgs[k].op = "scan" -> scan(c, k, fr, h)
          [] c.stgs[k].op = "inspect" -> inspect(c, k, fr, h)
          [] c.stgs[k].op = "enumerate" -> enumerate(c, k, fr, h)
          [] c.stgs[k].op = "truthy" -> truthy(c, k, fr, h)
          [] OTHER -> falsy(c, k, fr, h)

\* -------------------------------------------------------------- traversals
Idle ==
    [it |-> 0, op |-> "none", fn |-> "", fr |-> <<>>, out |-> <<>>,
     acc |-> 0, res |-> FALSE, st |-> "idle"]

Trav == 1..MaxTrav

\* The static constructors: Iter.fromArray, Iter.range, Iter.fromIterable,
\* Iter.fromGenerator, Iter.repeat.
Init ==
    /\ source \in Sources
    /\ iters = << <<>> >>
    /\ trav = [t \in Trav |-> Idle]
    /\ log = [t \in 0..MaxTrav |-> <<>>]
    /\ raises = {}

\* No generator object exists yet.
Unstarted == \A t \in Trav : trav[t].st = "idle"

\* A synchronous terminal operation is inside its loop: nothing else runs.
Busy == \E t \in Trav : trav[t].st = "open" /\ trav[t].op # "iter"

\* The caller may chain one more combinator.
CanChain == Unstarted /\ Len(iters) = 1 /\ Len(iters[1]) < MaxStages

\* new Iter(generator): the new Iter's factory wraps the receiver's.
Chain(stage) ==
    /\ iters' = << Append(iters[1], stage) >>
    /\ UNCHANGED <<source, trav, log, raises>>

\* ------------------------------------------------------------- combinators
Map ==
    /\ CanChain /\ IsNum(iters[1])
    /\ \E fn \in Mappers : Chain(Stage("map", fn, 0))

Filter ==
    /\ CanChain /\ IsNum(iters[1])
    /\ \E fn \in Predicates : Chain(Stage("filter", fn, 0))

Take ==
    /\ CanChain
    /\ \E count \in 0..MaxTake : Chain(Stage("take", "", count))

Pairwise ==
    /\ CanChain
    /\ Chain(Stage("pairwise", "", 0))

Enumerate ==
    /\ CanChain
    /\ Chain(Stage("enumerate", "", 0))

Scan ==
    /\ CanChain /\ IsNum(iters[1])
    /\ \E fn \in Reducers, initial \in Initials : Chain(Stage("scan", fn, initial))

\* Mutant of Inspect: the inspector invoked when the Iter is built.
Inspect_eager ==
    /\ CanChain
    /\ iters' = << Append(iters[1], Stage("inspect", "", 0)) >>
    /\ log' = [log EXCEPT ![0] = Append(@, Event("call", Len(iters[1]) + 1, NoItem))]
    /\ UNCHANGED <<source, trav, raises>>

Inspect ==
    /\ CanChain
    /\ Chain(Stage("inspect", "", 0))

\* return [new Iter(truthy), new Iter(falsy)]
Partition ==
    /\ CanChain /\ IsNum(iters[1])
    /\ \E fn \in Predicates :
        iters' = << Append(iters[1], Stage("truthy", fn, 0)),
                    Append(iters[1], Stage("falsy", fn, 0)) >>
    /\ UNCHANGED <<source, trav, log, raises>>

\* ------------------------------------------------------ terminal operations
\* The context of traversal t.
Ctx(t) == [src |-> source, stgs |-> iters[trav[t].it], raises |-> raises]

\* The outermost generator of traversal t, and the terminal's own number.
Top(t) == Len(iters[trav[t].it])
Terminal(t) == Top(t) + 1

\* The terminal operations the caller uses side by side.
Alike(op) == IF op \in {"reduce", "fold"} THEN {"reduce", "fold"} ELSE {op}

\* Traversals are numbered in the order they are opened; the caller repeats
\* one terminal operation (on the same Iter or on the other of a partition),
\* or uses reduce and fold with the same callback.
CanOpen(t, op, fn) ==
    /\ ~Busy
    /\ trav[t].st = "idle"
    /\ \A u \in Trav : u < t =>
            trav[u].st # "idle" /\ trav[u].op \in Alike(op) /\ trav[u].fn = fn

\* The generator objects of traversal t as they are now: the generator of a
\* source that can be traversed once is the one object every traversal
\* shares, wherever another traversal has left it.
Frames(t) ==
    IF source.once THEN [trav[t].fr EXCEPT ![1] = source.gen] ELSE trav[t].fr

\* Traversal t has made a pull (trav' is set): that one object is where the
\* pull left it.  Nothing else of what the constructor closed over changes.
Pulled(t) ==
    source' = IF source.once THEN [source EXCEPT !.gen = trav'[t].fr[1]] ELSE source

\* Mutant of Open: partition calls context.factory() once, outside its two
\* generator functions, so that the second branch traversed goes on with the
\* parent's generator where the first one left it.
Open_hoisted(t, it, op, fn, acc) ==
    /\ trav' = [trav EXCEPT ![t] =
            [it |-> it, op |-> op, fn |-> fn,
             fr |-> IF Len(iters) = 2 /\ t > 1 /\ trav[1].it # it
                    THEN [k \in 1..(Len(iters[it]) + 1) |->
                            IF k <= Len(iters[it]) THEN trav[1].fr[k] ELSE NewFrame]
                    ELSE Factory(iters[it]),
             out |-> <<>>, acc |-> acc, res |-> FALSE, st |-> "open"]]
    /\ UNCHANGED <<source, iters, log, raises>>

\* this.factory() at the head of a terminal operation
Open(t, it, op, fn, acc) ==
    /\ trav' = [trav EXCEPT ![t] =
            [it |-> it, op |-> op, fn |-> fn, fr |-> Factory(iters[it]),
             out |-> <<>>, acc |-> acc, res |-> FALSE, st |-> "open"]]
    /\ UNCHANGED <<source, iters, log, raises>>

Running(t, op) == trav[t].st = "open" /\ trav[t].op = op

\* An exception leaves the terminal operation of traversal t (the caller's
\* next(), for [Symbol.iterator]): it returns nothing.
Abort(t, fr, lg) ==
    /\ log' = [log EXCEPT ![t] = lg]
    /\ trav' = [trav EXCEPT ![t].fr = fr, ![t].st = "thrown",
                            ![t].out = IF trav[t].op = "collect" THEN <<>> ELSE @]

\* The terminal operation's own callback throws on the item pulled (r): its
\* for-of loop calls return() on the generator and the exception goes on to
\* the caller.
CallRaise(t, r) ==
    Abort(t, Close(Terminal(t), r.fr),
          Append(Append(r.log, Event("call", Terminal(t), r.item)),
                 Event("raise", Terminal(t), r.item)))

\* Iter.collect: [...this.factory()]
Collect ==
    \E t \in Trav, it \in 1..Len(iters) :
        CanOpen(t, "collect", "") /\ Open(t, it, "collect", "", 0)

\* one turn of the spread's loop
CollectNext ==
    \E t \in Trav :
        /\ Running(t, "collect")
        /\ LET r == Next(Ctx(t), Top(t), Frames(t), log[t])
           IN  /\ ~r.stuck
               /\ IF r.thrown THEN Abort(t, r.fr, r.log)
                  ELSE /\ log' = [log EXCEPT ![t] = r.log]
                       /\ trav' = [trav EXCEPT ![t] =
                            IF r.done THEN [@ EXCEPT !.fr = r.fr, !.st = "done"]
                            ELSE [@ EXCEPT !.fr = r.fr, !.out = Append(@, r.item.v)]]
        /\ Pulled(t)
        /\ UNCHANGED <<iters, raises>>

\* Iter.reduce: let acc = initial; for (item of this.factory()) acc = reducer(acc, item)
Reduce ==
    \E t \in Trav, it \in 1..Len(iters), fn \in Folders, initial \in Initials :
        CanOpen(t, "reduce", fn) /\ IsNum(iters[it]) /\ Open(t, it, "reduce", fn, initial)

ReduceNext ==
    \E t \in Trav :
        /\ Running(t, "reduce")
        /\ LET r == Next(Ctx(t), Top(t), Frames(t), log[t])
           IN  /\ ~r.stuck
               /\ IF r.thrown THEN Abort(t, r.fr, r.log)
                  ELSE IF ~r.done /\ Raises(Ctx(t), Terminal(t), r.item) THEN CallRaise(t, r)
                  ELSE IF r.done
                  THEN /\ log' = [log EXCEPT ![t] = r.log]
                       /\ trav' = [trav EXCEPT ![t].fr = r.fr, ![t].st = "done"]
                  ELSE /\ log' = [log EXCEPT ![t] =
                                Append(r.log, Event("call", Terminal(t), r.item))]
                       /\ trav' = [trav EXCEPT ![t].fr = r.fr,
                                ![t].acc = Reducer(trav[t].fn, @, r.item.v)]
        /\ Pulled(t)
        /\ UNCHANGED <<iters, raises>>

\* Iter.fold (dist): let acc = initial; for (item of this.factory()) acc = predicate(acc, item)
Fold ==
    \E t \in Trav, it \in 1..Len(iters), fn \in Folders, initial \in Initials :
        CanOpen(t, "fold", fn) /\ IsNum(iters[it]) /\ Open(t, it, "fold", fn, initial)

\* Mutant of FoldNext: the callback's arguments swapped, predicate(item, acc).
FoldNext_swapped ==
    \E t \in Trav :
        /\ Running(t, "fold")
        /\ LET r == Next(Ctx(t), Top(t), Frames(t), log[t])
           IN  /\ ~r.stuck
               /\ IF r.done
                  THEN /\ log' = [log EXCEPT ![t] = r.log]
                       /\ trav' = [trav EXCEPT ![t].fr = r.fr, ![t].st = "done"]
                  ELSE /\ log' = [log EXCEPT ![t] =
                                Append(r.log, Event("call", Terminal(t), r.item))]
                       /\ trav' = [trav EXCEPT ![t].fr = r.fr,
                                ![t].acc = Reducer(trav[t].fn, r.item.v, @)]
        /\ Pulled(t)
        /\ UNCHANGED <<iters, raises>>

FoldNext ==
    \E t \in Trav :
        /\ Running(t, "fold")
        /\ LET r == Next(Ctx(t), Top(t), Frames(t), log[t])
           IN  /\ ~r.stuck
               /\ IF r.thrown THEN Abort(t, r.fr, r.log)
                  ELSE IF ~r.done /\ Raises(Ctx(t), Terminal(t), r.item) THEN CallRaise(t, r)
                  ELSE IF r.done
                  THEN /\ log' = [log EXCEPT ![t] = r.log]
                       /\ trav' = [trav EXCEPT ![t].fr = r.fr, ![t].st = "done"]
                  ELSE /\ log' = [log EXCEPT ![t] =
                                Append(r.log, Event("call", Terminal(t), r.item))]
                       /\ trav' = [trav EXCEPT ![t].fr = r.fr,
                                ![t].acc = Reducer(trav[t].fn, @, r.item.v)]
        /\ Pulled(t)
        /\ UNCHANGED <<iters, raises>>

\* Iter.forEach (dist): for (item of this.factory()) callback(item)
ForEach ==
    \E t \in Trav, it \in 1..Len(iters) :
        CanOpen(t, "forEach", "") /\ Open(t, it, "forEach", "", 0)

\* Mutant of ForEachNext: the callback given the index, as for (i in array)
\* would.
ForEachNext_index ==
    \E t \in Trav :
        /\ Running(t, "forEach")
        /\ LET r == Next(Ctx(t), Top(t), Frames(t), log[t])
           IN  /\ ~r.stuck
               /\ IF r.done
                  THEN /\ log' = [log EXCEPT ![t] = r.log]
                       /\ trav' = [trav EXCEPT ![t].fr = r.fr, ![t].st = "done"]
                  ELSE /\ log' = [log EXCEPT ![t] =
                                Append(r.log, Event("call", Terminal(t),
                                                    Item(trav[t].acc, r.item.o)))]
                       /\ trav' = [trav EXCEPT ![t].fr = r.fr, ![t].acc = @ + 1]
        /\ Pulled(t)
        /\ UNCHANGED <<iters, raises>>

ForEachNext ==
    \E t \in Trav :
        /\ Running(t, "forEach")
        /\ LET r == Next(Ctx(t), Top(t), Frames(t), log[t])
           IN  /\ ~r.stuck
               /\ IF r.thrown THEN Abort(t, r.fr, r.log)
                  ELSE IF ~r.done /\ Raises(Ctx(t), Terminal(t), r.item) THEN CallRaise(t, r)
                  ELSE IF r.done
                  THEN /\ log' = [log EXCEPT ![t] = r.log]
                       /\ trav' = [trav EXCEPT ![t].fr = r.fr, ![t].st = "done"]
                  ELSE /\ log' = [log EXCEPT ![t] =
                                Append(r.log, Event("call", Terminal(t), r.item))]
                       /\ trav' = [trav EXCEPT ![t].fr = r.fr]
        /\ Pulled(t)
        /\ UNCHANGED <<iters, raises>>

\* Iter.every: for (item of this.factory()) if (!predicate(item)) return false; return true
Every ==
    \E t \in Trav, it \in 1..Len(iters), fn \in Predicates :
        CanOpen(t, "every", fn) /\ IsNum(iters[it]) /\ Open(t, it, "every", fn, 0)

\* Mutant of EveryNext: the result remembered and the loop run to its end.
EveryNext_drain ==
    \E t \in Trav :
        /\ Running(t, "every")
        /\ LET r == Next(Ctx(t), Top(t), Frames(t), log[t])
           IN  /\ ~r.stuck
               /\ IF r.done
                  THEN /\ log' = [log EXCEPT ![t] = r.log]
                       /\ trav' = [trav EXCEPT ![t].fr = r.fr, ![t].res = (trav[t].acc = 0),
                                ![t].st = "done"]
                  ELSE /\ log' = [log EXCEPT ![t] =
                                Append(r.log, Event("call", Terminal(t), r.item))]
                       /\ trav' = [trav EXCEPT ![t].fr = r.fr,
                                ![t].acc = IF ~Predicate(trav[t].fn, r.item.v) THEN 1 ELSE @]
        /\ Pulled(t)
        /\ UNCHANGED <<iters, raises>>

\* Mutant of EveryNext: return predicate(item) inside the loop, which decides
\* on the first element.
EveryNext_first ==
    \E t \in Trav :
        /\ Running(t, "every")
        /\ LET r == Next(Ctx(t), Top(t), Frames(t), log[t])
           IN  /\ ~r.stuck
               /\ IF r.done
                  THEN /\ log' = [log EXCEPT ![t] = r.log]
                       /\ trav' = [trav EXCEPT ![t].fr = r.fr, ![t].res = TRUE,
                                ![t].st = "done"]
                  ELSE /\ log' = [log EXCEPT ![t] =
                                Append(r.log, Event("call", Terminal(t), r.item))]
                       /\ trav' = [trav EXCEPT ![t] =
                            [@ EXCEPT !.fr = Close(Terminal(t), r.fr),
                                      !.res = Predicate(trav[t].fn, r.item.v),
                                      !.st = "done"]]
        /\ Pulled(t)
        /\ UNCHANGED <<iters, raises>>

EveryNext ==
    \E t \in Trav :
        /\ Running(t, "every")
        /\ LET r == Next(Ctx(t), Top(t), Frames(t), log[t])
           IN  /\ ~r.stuck
               /\ IF r.thrown THEN Abort(t, r.fr, r.log)
                  ELSE IF ~r.done /\ Raises(Ctx(t), Terminal(t), r.item) THEN CallRaise(t, r)
                  ELSE IF r.done
                  THEN /\ log' = [log EXCEPT ![t] = r.log]
                       /\ trav' = [trav EXCEPT ![t].fr = r.fr, ![t].res = TRUE,
                                ![t].st = "done"]
                  ELSE /\ log' = [log EXCEPT ![t] =
                                Append(r.log, Event("call", Terminal(t), r.item))]
                       /\ trav' = [trav EXCEPT ![t] =
                            IF ~Predicate(trav[t].fn, r.item.v)
                            THEN [@ EXCEPT !.fr = Close(Terminal(t), r.fr),
                                           !.res = FALSE, !.st = "done"]
                            ELSE [@ EXCEPT !.fr = r.fr]]
        /\ Pulled(t)
        /\ UNCHANGED <<iters, raises>>

\* Iter.some: for (item of this.factory()) if (predicate(item)) return true; return false
Some ==
    \E t \in Trav, it \in 1..Len(iters), fn \in Predicates :
        CanOpen(t, "some", fn) /\ IsNum(iters[it]) /\ Open(t, it, "some", fn, 0)

\* Mutant of SomeNext: the result overwritten by every element and returned
\* after the loop.
SomeNext_last ==
    \E t \in Trav :
        /\ Running(t, "some")
        /\ LET r == Next(Ctx(t), Top(t), Frames(t), log[t])
           IN  /\ ~r.stuck
               /\ IF r.done
                  THEN /\ log' = [log EXCEPT ![t] = r.log]
                       /\ trav' = [trav EXCEPT ![t].fr = r.fr, ![t].st = "done"]
                  ELSE /\ log' = [log EXCEPT ![t] =
                                Append(r.log, Event("call", Terminal(t), r.item))]
                       /\ trav' = [trav EXCEPT ![t].fr = r.fr,
                                ![t].res = Predicate(trav[t].fn, r.item.v)]
        /\ Pulled(t)
        /\ UNCHANGED <<iters, raises>>

SomeNext ==
    \E t \in Trav :
        /\ Running(t, "some")
        /\ LET r == Next(Ctx(t), Top(t), Frames(t), log[t])
           IN  /\ ~r.stuck
               /\ IF r.thrown THEN Abort(t, r.fr, r.log)
                  ELSE IF ~r.done /\ Raises(Ctx(t), Terminal(t), r.item) THEN CallRaise(t, r)
                  ELSE IF r.done
                  THEN /\ log' = [log EXCEPT ![t] = r.log]
                       /\ trav' = [trav EXCEPT ![t].fr = r.fr, ![t].res = FALSE,
                                ![t].st = "done"]
                  ELSE /\ log' = [log EXCEPT ![t] =
                                Append(r.log, Event("call", Terminal(t), r.item))]
                       /\ trav' = [trav EXCEPT ![t] =
                            IF Predicate(trav[t].fn, r.item.v)
                            THEN [@ EXCEPT !.fr = Close(Terminal(t), r.fr),
                                           !.res = TRUE, !.st = "done"]
                            ELSE [@ EXCEPT !.fr = r.fr]]
        /\ Pulled(t)
        /\ UNCHANGED <<iters, raises>>

\* Iter[Symbol.iterator]: return this.factory()
SymbolIterator ==
    \E t \in Trav, it \in 1..Len(iters) :
        CanOpen(t, "iter", "") /\ Open(t, it, "iter", "", 0)

\* The caller's next() on a generator [Symbol.iterator]() returned.
IterNext ==
    \E t \in Trav :
        /\ Running(t, "iter")
        /\ LET r == Next(Ctx(t), Top(t), Frames(t), log[t])
           IN  /\ ~r.stuck
               /\ IF r.thrown THEN Abort(t, r.fr, r.log)
                  ELSE /\ log' = [log EXCEPT ![t] = r.log]
                       /\ trav' = [trav EXCEPT ![t] =
                            IF r.done THEN [@ EXCEPT !.fr = r.fr, !.st = "done"]
                            ELSE [@ EXCEPT !.fr = r.fr, !.out = Append(@, r.item.v)]]
        /\ Pulled(t)
        /\ UNCHANGED <<iters, raises>>

Build == Map \/ Filter \/ Take \/ Pairwise \/ Enumerate \/ Scan \/ Inspect \/ Partition

Start == Collect \/ Reduce \/ Fold \/ ForEach \/ Every \/ Some \/ SymbolIterator

Step == CollectNext \/ ReduceNext \/ FoldNext \/ ForEachNext \/ EveryNext \/ SomeNext \/ IterNext

Next_ == Build \/ Start \/ Step

Spec == Init /\ [][Next_]_vars

\* Iter.range(start, end).collect() for every start and end of a window
\* around zero; collect() may be called again on the same Iter.
Ranges == {RangeSource(start, end) : start, end \in -MaxAbs..MaxAbs}

RangeInit ==
    /\ source \in Ranges
    /\ iters = << <<>> >>
    /\ trav = [t \in Trav |-> Idle]
    /\ log = [t \in 0..MaxTrav |-> <<>>]
    /\ raises = {}

RangeNext == Collect \/ CollectNext

RangeSpec == RangeInit /\ [][RangeNext]_vars

\* The callbacks the caller supplies throw on one value; the source is an
\* array of MaxLen elements, or a generator object given to fromIterable or
\* returned by the function given to fromGenerator.
ThrowInit ==
    /\ source \in {ArraySource(s) : s \in [1..MaxLen -> Vals]}
                \cup {IterableSource(s, TRUE) : s \in Produced}
                \cup {GeneratorSource(s, TRUE) : s \in Produced}
    /\ iters = << <<>> >>
    /\ trav = [t \in Trav |-> Idle]
    /\ log = [t \in 0..MaxTrav |-> <<>>]
    /\ raises \in {{v} : v \in Vals}

ThrowSpec == ThrowInit /\ [][Next_]_vars

\* The instance methods class Iter defines in src/src/index.ts.
Methods ==
    {"map", "filter", "take", "reduce", "pairwise", "scan", "partition",
     "collect", "inspect", "every", "some", "Symbol.iterator"}

\* The methods the test suite (index.spec.ts, describe('Iter - Methods'))
\* calls on an Iter.
Operations ==
    {"map", "filter", "reduce", "take", "pairwise", "enumerate", "fold", "scan",
     "partition", "collect", "inspect", "all", "any", "forEach", "reject"}

\* No call has thrown so far: an uncaught exception ends the caller's script.
NoTypeError == log[0] = <<>>

\* iter.m(...) with m not a property of Iter.prototype: the value called is
\* undefined, and the call throws TypeError: iter.m is not a function.
NotAFunction ==
    /\ NoTypeError /\ ~Busy
    /\ \E m \in Operations \ Methods :
            log' = [log EXCEPT ![0] = Append(@, Event("TypeError", 0, Item(m, 0)))]
    /\ UNCHANGED <<source, iters, trav, raises>>

\* The caller uses the class of src/src/index.ts by the names of Operations:
\* those it defines run as above, the others throw.
IndexTsNext ==
    \/ NoTypeError /\ (Map \/ Filter \/ Take \/ Pairwise \/ Scan \/ Inspect \/ Partition)
    \/ NoTypeError /\ (Collect \/ Reduce)
    \/ CollectNext \/ ReduceNext
    \/ NotAFunction

IndexTsSpec == Init /\ [][IndexTsNext]_vars

\* const f = it.filter(p), r = it.reject(p), [a, b] = it.partition(p): the
\* Iters one predicate selects from one receiver it (iters[1]) over a finite
\* source, each of them collected.
FiniteSources == {src \in Sources : ~src.inf}

Receivers == {<<>>, <<Stage("map", "inc", 0)>>, <<Stage("take", "", MaxTake)>>}

SelectInit ==
    /\ source \in FiniteSources
    /\ \E recv \in Receivers : iters = <<recv>>
    /\ trav = [t \in Trav |-> Idle]
    /\ log = [t \in 0..MaxTrav |-> <<>>]
    /\ raises = {}

\* One of the Iters made so far ends with stage op.
Made(op) == \E it \in 1..Len(iters) : iters[it] # <<>> /\ iters[it][Len(iters[it])].op = op

\* it.filter(p): a new Iter over the receiver's factory.
SelectFilter ==
    /\ NoTypeError /\ Unstarted /\ ~Made("filter")
    /\ \E fn \in Predicates : iters' = Append(iters, Append(iters[1], Stage("filter", fn, 0)))
    /\ UNCHANGED <<source, trav, log, raises>>

\* it.partition(p): two new Iters over the receiver's factory.
SelectPartition ==
    /\ NoTypeError /\ Unstarted /\ ~Made("truthy")
    /\ \E fn \in Predicates :
            iters' = iters \o << Append(iters[1], Stage("truthy", fn, 0)),
                                 Append(iters[1], Stage("falsy", fn, 0)) >>
    /\ UNCHANGED <<source, trav, log, raises>>

\* it.reject(p): class Iter has no method reject, so the call throws
\* TypeError: it.reject is not a function, and no Iter is made.
SelectReject ==
    /\ NoTypeError /\ ~Busy
    /\ "reject" \notin Methods
    /\ log' = [log EXCEPT ![0] = Append(@, Event("TypeError", 0, Item("reject", 0)))]
    /\ UNCHANGED <<source, iters, trav, raises>>

SelectNext ==
    \/ SelectFilter \/ SelectPartition \/ SelectReject
    \/ NoTypeError /\ Collect
    \/ CollectNext

SelectSpec == SelectInit /\ [][SelectNext]_vars

\* The caller changes the array it gave to Iter.fromArray, between two calls
\* on the Iter: source.push(v), source.pop(), source[i] = v.  The closure of
\* fromArray holds the same array object.  log[0] keeps what each change
\* replaced.
CanMutate ==
    /\ ~Busy
    /\ source.kind = "array"
    /\ Len(log[0]) < MaxMutations

Mutate(items, e) ==
    /\ source' = [source EXCEPT !.items = items]
    /\ log' = [log EXCEPT ![0] = Append(@, e)]
    /\ UNCHANGED <<iters, trav, raises>>

Push ==
    /\ CanMutate /\ Len(source.items) < MaxLen
    /\ \E v \in Vals :
            Mutate(Append(source.items, v), Event("push", 0, Item(v, Len(source.items))))

Pop ==
    /\ CanMutate /\ source.items # <<>>
    /\ LET n == Len(source.items)
       IN  Mutate(SubSeq(source.items, 1, n - 1), Event("pop", 0, Item(source.items[n], n - 1)))

Replace ==
    /\ CanMutate
    /\ \E i \in 1..Len(source.items), v \in Vals :
            /\ v # source.items[i]
            /\ Mutate([source.items EXCEPT ![i] = v], Event("set", 0, Item(source.items[i], i - 1)))

MutateInit ==
    /\ source \in {ArraySource(s) : s \in Arrays}
    /\ iters = << <<>> >>
    /\ trav = [t \in Trav |-> Idle]
    /\ log = [t \in 0..MaxTrav |-> <<>>]
    /\ raises = {}

MutateNext == Map \/ Collect \/ CollectNext \/ Push \/ Pop \/ Replace

MutateSpec == MutateInit /\ [][MutateNext]_vars

\* ---------------------------------------------------- reference semantics
\* The element sequence the specification gives an Iter, as plain lists
\* (spec section 4): used by the properties, not by the model.
Min(a, b) == IF a < b THEN a ELSE b

\* The elements of a source; of an unbounded range, those up to MaxRange.
SourceElems(src) ==
    CASE src.kind \in {"array", "iterable", "generator"} -> src.items
      [] src.kind = "repeat" -> [i \in 1..src.b |-> src.a]
      [] src.kind = "range" /\ src.inf -> [i \in 1..(MaxRange - src.a + 1) |-> src.a + i - 1]
      [] src.kind = "range" /\ src.a < src.b -> [i \in 1..(src.b - src.a) |-> src.a + i - 1]
      [] OTHER -> [i \in 1..(src.a - src.b) |-> src.a - i + 1]

RECURSIVE FoldLeft(_, _, _)
FoldLeft(fn, acc, xs) ==
    IF xs = <<>> THEN acc ELSE FoldLeft(fn, Reducer(fn, acc, Head(xs)), Tail(xs))

Holds(fn, x) == Predicate(fn, x)
Fails(fn, x) == ~Predicate(fn, x)

RECURSIVE Keep(_, _, _)
Keep(xs, fn, want) ==
    IF xs = <<>> THEN <<>>
    ELSE IF Predicate(fn, Head(xs)) = want THEN <<Head(xs)>> \o Keep(Tail(xs), fn, want)
    ELSE Keep(Tail(xs), fn, want)

StageElems(s, xs) ==
    CASE s.op = "map" -> [i \in 1..Len(xs) |-> Mapper(s.fn, xs[i])]
      [] s.op \in {"filter", "truthy"} -> Keep(xs, s.fn, TRUE)
      [] s.op = "falsy" -> Keep(xs, s.fn, FALSE)
      [] s.op = "take" -> SubSeq(xs, 1, Min(s.n, Len(xs)))
      [] s.op = "pairwise" -> [i \in 1..(Len(xs) - 1) |-> <<xs[i], xs[i + 1]>>]
      [] s.op = "enumerate" -> [i \in 1..Len(xs) |-> <<i - 1, xs[i]>>]
      [] s.op = "scan" -> [i \in 1..Len(xs) |-> FoldLeft(s.fn, s.n, SubSeq(xs, 1, i))]
      [] OTHER -> xs

RECURSIVE Elems(_, _)
Elems(src, stgs) ==
    IF Len(stgs) = 0 THEN SourceElems(src)
    ELSE StageElems(stgs[Len(stgs)], Elems(src, SubSeq(stgs, 1, Len(stgs) - 1)))

IsPrefix(xs, ys) == Len(xs) <= Len(ys) /\ xs = SubSeq(ys, 1, Len(xs))

\* How many events of one kind generator st has logged.
Count(lg, ev, st) == Cardinality({p \in 1..Len(lg) : lg[p].ev = ev /\ lg[p].st = st})

\* The stages of the Iter traversal t runs over, and those of its parent.
StagesOf(t) == iters[trav[t].it]
Started(t) == trav[t].st # "idle"
Finished(t) == trav[t].st = "done"

\* The elements the source has handed to traversal t so far, in order.
Delivered(t) ==
    LET P == {p \in 1..Len(log[t]) : log[t][p].ev = "yield" /\ log[t][p].st = 0}
        nth(j) == CHOOSE p \in P : Cardinality({q \in P : q <= p}) = j
    IN  [j \in 1..Cardinality(P) |-> log[t][nth(j)].v]

\* The source can be traversed again and again: every traversal is over the
\* same elements.
Reinvocable == ~source.once

\* The sequence traversal t is over: the source's elements, or, of a source
\* that can be traversed once, those of them this traversal was handed.
Seen(t) == IF Reinvocable THEN source ELSE ArraySource(Delivered(t))

\* ------------------------------------------------------------------ claims

\* C1: once take(n) has yielded n elements it pulls its parent no further: in
\* every traversal the generator below a take(n) stage yields at most n
\* elements, and when the traversal is finished exactly as many as take
\* delivered, so no upstream callback runs for an element past the n-th.
C1_TakeStopsPulling ==
    \A t \in Trav : Started(t) =>
        \A k \in 1..Len(StagesOf(t)) : StagesOf(t)[k].op = "take" =>
            /\ Count(log[t], "yield", k - 1) <= StagesOf(t)[k].n
            /\ Finished(t) => Count(log[t], "yield", k - 1) = Count(log[t], "yield", k)

RangeTake ==
    /\ source = RangeToInfinity(0)
    /\ Len(iters) = 1 /\ Len(iters[1]) = 1 /\ iters[1][1].op = "take"

C2_Loop ==
    RangeTake =>
        \A t \in Trav :
            /\ Running(t, "collect") =>
                    /\ ENABLED CollectNext
                    /\ Len(trav[t].out) <= iters[1][1].n
            /\ (trav[t].op = "collect" /\ Finished(t)) =>
                    trav[t].out = [i \in 1..iters[1][1].n |-> i - 1]

C2_Turn ==
    (RangeTake /\ CollectNext) =>
        \E t \in Trav :
            /\ Running(t, "collect")
            /\ \/ Len(trav'[t].out) = Len(trav[t].out) + 1
               \/ trav'[t].st = "done"

\* C2: range(0, +Infinity).take(n).collect() terminates and returns
\* [0, 1, ..., n-1], for every n: while collect is in its loop the next turn
\* can always be taken, every turn either adds an element or ends the loop,
\* no more than n elements are ever added, and the array returned is 0..n-1.
C2_RangeTakeCollectTerminates == [] C2_Loop /\ [][C2_Turn]_vars

C2_Witness ==
    \E t \in Trav :
        /\ RangeTake /\ iters[1][1].n = MaxTake
        /\ trav[t].op = "collect" /\ Finished(t)
        /\ Len(trav[t].out) = MaxTake

Unpulled(t) == \A k \in 1..Len(trav[t].fr) : trav[t].fr[k].pc = "start"

\* C3: building a pipeline invokes neither a callback nor a producer: nothing
\* is ever logged outside a traversal, and a traversal's log is empty until
\* its terminal operation has made its first pull.
C3_Lazy ==
    /\ log[0] = <<>>
    /\ \A t \in Trav : Unpulled(t) => log[t] = <<>>

C3_Witness ==
    /\ Unstarted
    /\ Len(iters) = 2
    /\ Len(iters[1]) = MaxStages
    /\ iters[1][1].op = "inspect"

SourceYields(lg, p) == Cardinality({q \in 1..p : lg[q].ev = "yield" /\ lg[q].st = 0})

\* C4: evaluation is depth-first, one element at a time: whatever a stage or
\* the terminal operation does (a callback invoked, an element yielded) is
\* done on the source element pulled last, so every stage has finished with
\* element i before the source yields element i+1; and between two pulls of
\* the source the stages act in chain order.
C4_DepthFirst ==
    \A t \in Trav :
        /\ \A p \in 1..Len(log[t]) : log[t][p].o = SourceYields(log[t], p) - 1
        /\ \A p, q \in 1..Len(log[t]) :
                (p < q /\ log[t][p].o = log[t][q].o) => log[t][p].st <= log[t][q].st

HasCallback(s) == s.op \in {"map", "filter", "inspect", "scan", "truthy", "falsy"}

C4_Witness ==
    \E t \in Trav :
        /\ Finished(t)
        /\ Len(StagesOf(t)) = 2
        /\ HasCallback(StagesOf(t)[1]) /\ HasCallback(StagesOf(t)[2])
        /\ \E p \in 1..Len(log[t]) :
                log[t][p].ev = "call" /\ log[t][p].st = 2 /\ log[t][p].o >= 1

FreshState(t) ==
    \A k \in 1..Len(StagesOf(t)) :
        /\ trav[t].fr[k + 1].i = 0
        /\ trav[t].fr[k + 1].arr = <<>>
        /\ StagesOf(t)[k].op = "scan" => trav[t].fr[k + 1].val = StagesOf(t)[k].n

SameCollect(t, u) ==
    /\ t < u
    /\ trav[t].op = "collect" /\ trav[u].op = "collect"
    /\ trav[t].it = trav[u].it
    /\ Finished(t) /\ Finished(u)

\* C5: collect() called twice on the same Iter built from fromArray, range
\* or repeat returns the same array: every traversal starts with the take
\* counter and enumerate index at 0, the scan accumulator at its initial
\* value and the pairwise buffer empty.
C5_CollectTwice ==
    /\ \A t \in Trav : (Started(t) /\ Unpulled(t)) => FreshState(t)
    /\ \A t, u \in Trav :
            (SameCollect(t, u) /\ source.kind \in {"array", "range", "repeat"}) =>
                trav[t].out = trav[u].out

C5_Witness ==
    \E t, u \in Trav :
        /\ SameCollect(t, u)
        /\ source.kind = "array"
        /\ Len(trav[u].out) >= 2
        /\ \E k \in 1..Len(StagesOf(u)) : StagesOf(u)[k].op = "scan"

Independent(t) ==
    /\ IsPrefix(trav[t].out, Elems(source, StagesOf(t)))
    /\ Finished(t) => trav[t].out = Elems(source, StagesOf(t))

\* C6, as claimed: every generator [Symbol.iterator]() returns is independent
\* of the others, whatever the Iter was built from: however the next() calls
\* of two of them interleave, each yields the Iter's elements from the first
\* one on, in order, and reports done after the last.
C6_AnySource ==
    \A t \in Trav : trav[t].op = "iter" => Independent(t)

\* C6, amended: the generators [Symbol.iterator]() returns are independent of
\* each other when the Iter's source can be traversed again (fromArray, range,
\* repeat, fromIterable of an array or string, fromGenerator of a function
\* that returns a new generator): each yields the Iter's elements from the
\* first one on, in order, and reports done after the last.
C6_IndependentIterators ==
    \A t \in Trav : (trav[t].op = "iter" /\ Reinvocable) => Independent(t)

C6_Witness ==
    \E t, u \in Trav :
        /\ t < u
        /\ Reinvocable
        /\ trav[t].op = "iter" /\ trav[u].op = "iter"
        /\ trav[t].it = trav[u].it
        /\ Running(t, "iter") /\ Len(trav[t].out) = 1
        /\ Finished(u) /\ Len(trav[u].out) >= 2

Decides(op, fn, x) == IF op = "every" THEN ~Predicate(fn, x) ELSE Predicate(fn, x)

FirstDeciding(xs, op, fn) ==
    LET S == {i \in 1..Len(xs) : Decides(op, fn, xs[i])}
    IN  IF S = {} THEN 0 ELSE CHOOSE i \in S : \A j \in S : i <= j

Decided(t) ==
    /\ Finished(t)
    /\ \/ trav[t].op = "every" /\ ~trav[t].res
       \/ trav[t].op = "some" /\ trav[t].res

\* C7: every(pred) and some(pred) pull nothing past the element that decides
\* the result: when the first element failing pred (every) or satisfying it
\* (some) is the j-th of the Iter, the Iter's generator was pulled j times
\* and pred called j times.
C7_ShortCircuit ==
    \A t \in Trav : Decided(t) =>
        LET j == FirstDeciding(Elems(Seen(t), StagesOf(t)), trav[t].op, trav[t].fn)
        IN  /\ j > 0
            /\ Count(log[t], "yield", Top(t)) = j
            /\ Count(log[t], "call", Terminal(t)) = j

C7_Witness ==
    \E t \in Trav :
        /\ Decided(t) /\ trav[t].op = "every"
        /\ Count(log[t], "call", Terminal(t)) = 1
        /\ Len(Elems(Seen(t), StagesOf(t))) >= 3

Parent(stgs) == SubSeq(stgs, 1, Len(stgs) - 1)

Branch(t, it) == trav[t].op = "collect" /\ Finished(t) /\ trav[t].it = it

Complement ==
    LET S == Elems(source, Parent(iters[1]))
        fn == iters[1][Len(iters[1])].fn
    IN  /\ \A t \in Trav : Branch(t, 1) => trav[t].out = Keep(S, fn, TRUE)
        /\ \A t \in Trav : Branch(t, 2) => trav[t].out = Keep(S, fn, FALSE)
        /\ \A t, u \in Trav : (Branch(t, 1) /\ Branch(u, 2)) =>
                Len(trav[t].out) + Len(trav[u].out) = Len(S)

\* C8, as claimed: over every finite source, the two Iters partition(p)
\* returns collect to the elements of the receiver on which p holds and to
\* those on which it does not, each in the receiver's order; together they
\* hold every element once.
C8_AnySource == Len(iters) = 2 => Complement

\* C8, amended: over every finite source that can be traversed again, the two
\* Iters partition(p) returns collect to the elements of the receiver on
\* which p holds and to those on which it does not, each in the receiver's
\* order; together they hold every element once.
C8_PartitionComplement == (Len(iters) = 2 /\ Reinvocable) => Complement

C8_Witness ==
    /\ Len(iters) = 2
    /\ Reinvocable
    /\ \E t, u \in Trav :
        /\ Branch(t, 1) /\ Branch(u, 2)
        /\ trav[t].out # <<>> /\ trav[u].out # <<>>

EndsWith(t, op) ==
    /\ Started(t)
    /\ trav[t].op \in {"collect", "iter"}
    /\ Len(StagesOf(t)) > 0
    /\ StagesOf(t)[Len(StagesOf(t))].op = op

\* C9: scan(f, initial) yields one value per element of its receiver, the
\* j-th being the left fold of the first j elements from initial: never the
\* bare initial value, and nothing for an empty receiver.
C9_Scan ==
    \A t \in Trav : EndsWith(t, "scan") =>
        LET S == Elems(Seen(t), Parent(StagesOf(t)))
            s == StagesOf(t)[Len(StagesOf(t))]
            out == trav[t].out
        IN  /\ Len(out) <= Len(S)
            /\ \A j \in 1..Len(out) : out[j] = FoldLeft(s.fn, s.n, SubSeq(S, 1, j))
            /\ Finished(t) => Len(out) = Len(S)

C9_Witness ==
    \E t \in Trav :
        /\ EndsWith(t, "scan") /\ Finished(t)
        /\ Len(trav[t].out) >= 2

\* C10: pairwise() over e0..e(k-1) yields the max(k-1, 0) overlapping pairs
\* [e0,e1], [e1,e2], ... in order; a receiver of 0 or 1 elements yields none.
C10_Pairwise ==
    \A t \in Trav : EndsWith(t, "pairwise") =>
        LET S == Elems(Seen(t), Parent(StagesOf(t)))
            out == trav[t].out
        IN  /\ Len(out) <= (IF Len(S) > 0 THEN Len(S) - 1 ELSE 0)
            /\ \A i \in 1..Len(out) : out[i] = <<S[i], S[i + 1]>>
            /\ Finished(t) => Len(out) = (IF Len(S) > 0 THEN Len(S) - 1 ELSE 0)

C10_Witness ==
    \E t \in Trav :
        /\ EndsWith(t, "pairwise") /\ Finished(t)
        /\ Len(trav[t].out) >= 2

RangeCollect(t) ==
    /\ source.kind = "range" /\ ~source.inf
    /\ trav[t].op = "collect" /\ StagesOf(t) = <<>>

\* C11: range(start, end).collect() is start, start+1, ..., end-1 when
\* start < end, start, start-1, ..., end+1 when start > end and empty when
\* start = end: end is never produced and the array has |end - start|
\* elements.
C11_Range ==
    \A t \in Trav : RangeCollect(t) =>
        LET start == source.a
            end == source.b
            out == trav[t].out
            n == IF start < end THEN end - start ELSE start - end
        IN  /\ Len(out) <= n
            /\ \A i \in 1..Len(out) :
                    /\ out[i] = (IF start < end THEN start + (i - 1) ELSE start - (i - 1))
                    /\ out[i] # end
            /\ Finished(t) => Len(out) = n

C11_Witness ==
    \E t, u \in Trav :
        /\ t # u
        /\ RangeCollect(t) /\ Finished(t)
        /\ RangeCollect(u) /\ Finished(u)
        /\ source.a > source.b /\ source.b < 0 /\ source.a > 0
        /\ Len(trav[t].out) >= 3

\* The position in xs of the j-th element on which predicate fn holds.
NthHolding(xs, fn, j) ==
    CHOOSE i \in 1..Len(xs) :
        /\ Predicate(fn, xs[i])
        /\ Cardinality({q \in 1..i : Predicate(fn, xs[q])}) = j

HoldingCount(xs, fn) == Cardinality({q \in 1..Len(xs) : Predicate(fn, xs[q])})

FilterTake(t) ==
    /\ EndsWith(t, "take")
    /\ Len(StagesOf(t)) = 2 /\ StagesOf(t)[1].op = "filter"

\* C12: take(n) yields the first min(n, k) elements of its receiver, in
\* order (k the receiver's length); after filter(p) these are the first n
\* elements of the source on which p holds, or all of them when fewer than n
\* do: what filter skips is not counted.
C12_Take ==
    \A t \in Trav :
        /\ EndsWith(t, "take") =>
            LET S == Elems(Seen(t), Parent(StagesOf(t)))
                n == StagesOf(t)[Len(StagesOf(t))].n
                out == trav[t].out
            IN  /\ Len(out) <= Min(n, Len(S))
                /\ \A j \in 1..Len(out) : out[j] = S[j]
                /\ Finished(t) => Len(out) = Min(n, Len(S))
        /\ FilterTake(t) =>
            LET xs == SourceElems(Seen(t))
                fn == StagesOf(t)[1].fn
                n == StagesOf(t)[2].n
                out == trav[t].out
            IN  /\ \A j \in 1..Len(out) : out[j] = xs[NthHolding(xs, fn, j)]
                /\ Finished(t) => Len(out) = Min(n, HoldingCount(xs, fn))

C12_Witness ==
    \E t \in Trav :
        /\ FilterTake(t) /\ Finished(t)
        /\ StagesOf(t)[2].n = 2 /\ Len(trav[t].out) = 2
        /\ source.kind = "array" /\ Len(source.items) = 3
        /\ ~Predicate(StagesOf(t)[1].fn, source.items[1])

\* Traversal t has collected the Iter the receiver's method op returned
\* (called with predicate fn).
Collected(t, op, fn) ==
    /\ trav[t].op = "collect" /\ Finished(t)
    /\ trav[t].it > 1
    /\ StagesOf(t)[Len(StagesOf(t))].op = op
    /\ StagesOf(t)[Len(StagesOf(t))].fn = fn

\* xs and ys are complementary in S under fn: S is xs and ys merged back,
\* taking the next element from xs where fn holds and from ys where not.
Complementary(S, fn, xs, ys) ==
    /\ Len(xs) + Len(ys) = Len(S)
    /\ \A i \in 1..Len(S) :
            LET nx == Cardinality({q \in 1..i : Predicate(fn, S[q])})
            IN  IF Predicate(fn, S[i]) THEN nx <= Len(xs) /\ xs[nx] = S[i]
                ELSE (i - nx) <= Len(ys) /\ ys[i - nx] = S[i]

\* The call it.reject(p) has returned an Iter whenever it was made.
RejectReturns ==
    \A p \in 1..Len(log[0]) : ~(log[0][p].ev = "TypeError" /\ log[0][p].v = "reject")

Selected ==
    LET S == Elems(source, iters[1])
    IN  \A fn \in Predicates : \A t, u \in Trav :
            /\ Collected(t, "filter", fn) => trav[t].out = Keep(S, fn, TRUE)
            /\ Collected(t, "reject", fn) => trav[t].out = Keep(S, fn, FALSE)
            /\ (Collected(t, "filter", fn) /\ Collected(u, "reject", fn)) =>
                    Complementary(S, fn, trav[t].out, trav[u].out)
            /\ (Collected(t, "filter", fn) /\ Collected(u, "truthy", fn)) =>
                    trav[t].out = trav[u].out
            /\ (Collected(t, "reject", fn) /\ Collected(u, "falsy", fn)) =>
                    trav[t].out = trav[u].out

\* C13: it.filter(p) and it.reject(p) each return an Iter; filter(p)
\* collects to the elements of the receiver on which p holds and reject(p)
\* to those on which it does not, both in the receiver's order; over every
\* finite source the two are complementary and equal the first and the
\* second Iter of partition(p).
C13_FilterReject == RejectReturns /\ Selected

FilterEnumerate(t) ==
    /\ EndsWith(t, "enumerate")
    /\ Len(StagesOf(t)) = 2 /\ StagesOf(t)[1].op = "filter"

\* C14: enumerate() yields the pairs [index, element], index first, the
\* index starting at 0 and growing by 1 with every element pulled from the
\* receiver; after a filter the indexes are the positions 0..m-1 in the
\* filtered sequence, not the positions in the source.
C14_Enumerate ==
    \A t \in Trav :
        /\ EndsWith(t, "enumerate") =>
            LET S == Elems(Seen(t), Parent(StagesOf(t)))
                out == trav[t].out
            IN  /\ Len(out) <= Len(S)
                /\ \A j \in 1..Len(out) : out[j] = <<j - 1, S[j]>>
                /\ Len(out) = Count(log[t], "yield", Top(t) - 1)
                /\ Finished(t) => Len(out) = Len(S)
        /\ FilterEnumerate(t) =>
            LET xs == SourceElems(Seen(t))
                fn == StagesOf(t)[1].fn
                out == trav[t].out
            IN  \A j \in 1..Len(out) :
                    out[j] = <<j - 1, xs[NthHolding(xs, fn, j)]>>

C14_Witness ==
    \E t \in Trav :
        /\ FilterEnumerate(t) /\ Finished(t)
        /\ Len(trav[t].out) >= 2
        /\ source.kind = "array"
        /\ ~Predicate(StagesOf(t)[1].fn, source.items[1])

Folded(t, op) == trav[t].op = op /\ Finished(t)

\* C15: reduce(f, initial) and fold(initial, f) return the same value over
\* the same Iter, for every f: each is the left fold of the Iter's elements
\* from initial, in order, and initial itself when there is no element.
C15_ReduceFold ==
    \A t, u \in Trav : \A initial \in Initials :
        /\ (Folded(t, "reduce") \/ Folded(t, "fold")) =>
                LET S == Elems(Seen(t), StagesOf(t))
                IN  /\ trav[t].acc = FoldLeft(trav[t].fn, initial, S)
                    /\ S = <<>> => trav[t].acc = initial
        /\ (Folded(t, "reduce") /\ Folded(u, "fold") /\ trav[t].it = trav[u].it
                /\ Seen(t) = Seen(u)) =>
                trav[t].acc = trav[u].acc

C15_Witness ==
    \E t, u \in Trav :
        /\ Folded(t, "reduce") /\ Folded(u, "fold") /\ trav[t].it = trav[u].it
        /\ trav[t].fn = "shift"
        /\ source.kind = "array" /\ Len(source.items) = 3
        /\ source.items[1] # source.items[3]
        /\ Len(Elems(Seen(t), StagesOf(t))) >= 2

\* The elements the terminal operation of traversal t has called its
\* callback on so far, in call order.
Called(t) ==
    LET P == {p \in 1..Len(log[t]) : log[t][p].ev = "call" /\ log[t][p].st = Terminal(t)}
        nth(j) == CHOOSE p \in P : Cardinality({q \in P : q <= p}) = j
    IN  [j \in 1..Cardinality(P) |-> log[t][nth(j)].v]

\* C16: all(pred) (every in src/src/index.ts) returns true exactly when pred
\* holds on every element of the Iter, so true when there is none; it goes
\* on only while pred has held, and returns false at the first element pred
\* fails on.
C16_All ==
    \A t \in Trav : trav[t].op = "every" =>
        LET S == Elems(Seen(t), StagesOf(t))
            seen == Called(t)
        IN  /\ IsPrefix(seen, S)
            /\ Running(t, "every") => \A j \in 1..Len(seen) : Predicate(trav[t].fn, seen[j])
            /\ Finished(t) =>
                /\ trav[t].res = (\A i \in 1..Len(S) : Predicate(trav[t].fn, S[i]))
                /\ trav[t].res => seen = S
                /\ ~trav[t].res =>
                    /\ ~Predicate(trav[t].fn, seen[Len(seen)])
                    /\ \A j \in 1..(Len(seen) - 1) : Predicate(trav[t].fn, seen[j])

C16_Witness ==
    \E t, u \in Trav :
        /\ trav[t].op = "every" /\ Finished(t) /\ trav[t].res
        /\ Len(Called(t)) >= 2
        /\ trav[u].op = "every" /\ Finished(u) /\ ~trav[u].res

\* C17: any(pred) (some in src/src/index.ts) returns true exactly when pred
\* holds on at least one element of the Iter, so false when there is none;
\* it returns true at the first element pred holds on.
C17_Any ==
    \A t \in Trav : trav[t].op = "some" =>
        LET S == Elems(Seen(t), StagesOf(t))
            seen == Called(t)
        IN  /\ IsPrefix(seen, S)
            /\ Running(t, "some") => \A j \in 1..Len(seen) : ~Predicate(trav[t].fn, seen[j])
            /\ Finished(t) =>
                /\ trav[t].res = (\E i \in 1..Len(S) : Predicate(trav[t].fn, S[i]))
                /\ ~trav[t].res => seen = S
                /\ trav[t].res =>
                    /\ Predicate(trav[t].fn, seen[Len(seen)])
                    /\ \A j \in 1..(Len(seen) - 1) : ~Predicate(trav[t].fn, seen[j])

C17_Witness ==
    \E t \in Trav :
        /\ trav[t].op = "some" /\ Finished(t) /\ trav[t].res
        /\ Len(Called(t)) >= 2
        /\ Len(Elems(Seen(t), StagesOf(t))) > Len(Called(t))

\* Event e is of kind ev at generator st and on the same element as d.
SameElement(e, ev, st, d) == e.ev = ev /\ e.st = st /\ e.v = d.v /\ e.o = d.o

\* C18: inspect(fn) calls fn once on every element it pulls from its
\* receiver, in order and with that element, before it yields the element,
\* and yields what it pulled: in every traversal each yield of the receiver
\* is followed at once by fn's call on that element and the call by
\* inspect's yield of it, and fn is called at no other time.
C18_Inspect ==
    \A t \in Trav : Started(t) =>
        \A k \in 1..Len(StagesOf(t)) : StagesOf(t)[k].op = "inspect" =>
            LET lg == log[t]
            IN  /\ \A p \in 1..Len(lg) :
                    /\ (lg[p].ev = "yield" /\ lg[p].st = k - 1) =>
                            p + 1 <= Len(lg) /\ SameElement(lg[p + 1], "call", k, lg[p])
                    /\ (lg[p].ev = "call" /\ lg[p].st = k) =>
                            /\ p > 1 /\ SameElement(lg[p - 1], "yield", k - 1, lg[p])
                            /\ p + 1 <= Len(lg) /\ SameElement(lg[p + 1], "yield", k, lg[p])
                    /\ (lg[p].ev = "yield" /\ lg[p].st = k) =>
                            p > 1 /\ SameElement(lg[p - 1], "call", k, lg[p])
                /\ \A p, q \in 1..Len(lg) :
                        (p < q /\ lg[p].ev = "call" /\ lg[p].st = k
                               /\ lg[q].ev = "call" /\ lg[q].st = k) => lg[p].o < lg[q].o
                /\ Count(lg, "call", k) = Count(lg, "yield", k - 1)
                /\ Count(lg, "call", k) = Count(lg, "yield", k)

C18_Witness ==
    \E t \in Trav :
        /\ Finished(t)
        /\ Len(StagesOf(t)) = 2
        /\ StagesOf(t)[1].op = "inspect" /\ StagesOf(t)[2].op = "filter"
        /\ Count(log[t], "call", 1) = 3
        /\ Count(log[t], "yield", 2) = 1

\* C19: forEach(fn) calls fn once on every element of the Iter, in order
\* and with the element as argument: over k elements fn is called k times,
\* the i-th call on the i-th element.
C19_ForEach ==
    \A t \in Trav : trav[t].op = "forEach" =>
        LET S == Elems(Seen(t), StagesOf(t))
            seen == Called(t)
        IN  /\ Len(seen) <= Len(S)
            /\ \A i \in 1..Len(seen) : seen[i] = S[i]
            /\ Len(seen) = Count(log[t], "yield", Top(t))
            /\ Finished(t) => Len(seen) = Len(S)

C19_Witness ==
    \E t \in Trav :
        /\ trav[t].op = "forEach" /\ Finished(t)
        /\ Len(Called(t)) = 3
        /\ Called(t)[1] # Called(t)[3]
        /\ Len(StagesOf(t)) > 0

\* The callback of generator k of traversal t is called on numbers.
NumAt(t, k) == IsNum(SubSeq(StagesOf(t), 1, k - 1))

\* Traversal t has ended in an exception and u is another traversal of the
\* same Iter: u starts at the first element and goes the way t went.
Again(t, u) ==
    (u # t /\ trav[t].st = "thrown" /\ Started(u) /\ trav[u].it = trav[t].it) =>
        /\ IsPrefix(log[u], log[t])
        /\ log[u] # <<>> => SameElement(log[u][1], "yield", 0, Item(source.items[1], 0))
        /\ trav[u].st # "open" => (trav[u].st = "thrown" /\ log[u] = log[t])

\* A callback that throws on an element ends traversal t there.
Propagates(t) ==
    LET lg == log[t]
    IN  /\ \A p \in 1..Len(lg) :
            /\ (lg[p].ev = "call" /\ NumAt(t, lg[p].st) /\ lg[p].v \in raises) =>
                    p + 1 <= Len(lg) /\ SameElement(lg[p + 1], "raise", lg[p].st, lg[p])
            /\ lg[p].ev = "raise" =>
                    /\ p = Len(lg)
                    /\ trav[t].st = "thrown"
                    /\ Count(lg, "yield", 0) = lg[p].o + 1
                    /\ \A k \in 1..Len(trav[t].fr) : trav[t].fr[k].pc = "done"
        /\ trav[t].st = "thrown" =>
                /\ lg # <<>> /\ lg[Len(lg)].ev = "raise"
                /\ trav[t].op = "collect" => trav[t].out = <<>>
        /\ Unpulled(t) => FreshState(t)

\* C20, as claimed: when a callback throws on an element, the exception
\* leaves the terminal operation, which returns nothing; nothing is pulled or
\* called after it, so no element after that one leaves the source; whatever
\* the Iter was built from, a later traversal of it starts with fresh
\* generators at the first element and runs into the same exception at the
\* same point.
C20_AnySource ==
    \A t \in Trav : Started(t) =>
        /\ Propagates(t)
        /\ \A u \in Trav : Again(t, u)

\* C20, amended: when a callback throws on an element, the exception leaves
\* the terminal operation, which returns nothing; nothing is pulled or called
\* after it, so no element after that one leaves the source; a later
\* traversal of the same Iter starts with fresh combinator state, and, when
\* the source can be traversed again, at the first element, running into the
\* same exception at the same point.
C20_Exceptions ==
    \A t \in Trav : Started(t) =>
        /\ Propagates(t)
        /\ Reinvocable => \A u \in Trav : Again(t, u)

C20_Witness ==
    \E t, u \in Trav :
        /\ t < u /\ trav[t].it = trav[u].it
        /\ Reinvocable
        /\ trav[t].st = "thrown" /\ trav[u].st = "thrown"
        /\ log[t][Len(log[t])].o = 1
        /\ log[t][Len(log[t])].st = 1
        /\ Len(StagesOf(t)) = 2 /\ StagesOf(t)[1].op = "scan"

\* C21: every operation the specification and the test suite call on an
\* Iter is a method of the class in src/src/index.ts: no call of one of them
\* ever throws because the method is missing.
C21_MethodsDefined ==
    \A p \in 1..Len(log[0]) : log[0][p].ev # "TypeError"

\* Traversal t is over a branch of partition() and has run to the end.
BranchDone(t) ==
    /\ Len(iters) = 2 /\ Finished(t)
    /\ trav[t].op \in {"collect", "iter", "reduce", "fold", "forEach"}

InspectPartition == Len(iters) = 2 /\ Len(iters[1]) = 2 /\ iters[1][1].op = "inspect"

Reinvokes ==
    LET S == Elems(source, Parent(iters[1]))
        fn == iters[1][Len(iters[1])].fn
        k == Len(SourceElems(source))
    IN  /\ \A t \in Trav :
                (Started(t) /\ source.kind # "range" /\ trav[t].fr[1].pc = "yield") =>
                    trav[t].fr[1].i + 1 = Count(log[t], "yield", 0)
        /\ \A t \in Trav : BranchDone(t) =>
            /\ Count(log[t], "yield", Top(t) - 1) = Len(S)
            /\ Count(log[t], "call", Top(t)) = Len(S)
            /\ InspectPartition =>
                    Count(log[t], "call", 1) = k /\ Count(log[t], "call", 2) = k
        /\ \A t, u \in Trav :
                (BranchDone(t) /\ BranchDone(u) /\ trav[t].it = 1 /\ trav[u].it = 2
                    /\ InspectPartition) =>
                    /\ Count(log[t], "call", 1) + Count(log[u], "call", 1) = 2 * k
                    /\ Count(log[t], "call", 2) + Count(log[u], "call", 2) = 2 * k
        /\ \A t \in Trav : (Started(t) /\ trav[t].op \in {"collect", "iter"}) =>
                LET want == Keep(S, fn, trav[t].it = 1)
                IN  /\ IsPrefix(trav[t].out, want)
                    /\ Finished(t) => trav[t].out = want

\* C22, as claimed: whatever the source, each branch of partition(pred) runs
\* the receiver again from the start: the source generator of a branch's
\* traversal has produced only what that traversal pulled.  A traversal of
\* one branch to its end pulls every element of the receiver and calls pred
\* on each; over S.inspect(fn).partition(pred), S of k elements, it calls fn
\* k times and pred k times, so both branches together 2k times each.
\* Whatever the order of the two traversals and however their pulls
\* interleave, the first branch yields the elements pred holds on and the
\* second the others.
C22_AnySource == Len(iters) = 2 => Reinvokes

\* C22, amended: over a source that can be traversed again, each branch of
\* partition(pred) runs the receiver again from the start: a traversal of
\* one branch to its end pulls every element of the receiver and calls pred
\* on each; over S.inspect(fn).partition(pred), S of k elements, it calls fn
\* k times and pred k times, so both branches together 2k times each; the
\* order of the two traversals and the interleaving of their pulls change
\* neither branch's result.
C22_PartitionReinvokes == (Len(iters) = 2 /\ Reinvocable) => Reinvokes

C22_Witness ==
    /\ InspectPartition
    /\ Reinvocable
    /\ Len(SourceElems(source)) = 3
    /\ trav[1].op = "iter" /\ trav[1].it = 2 /\ Running(1, "iter")
    /\ Len(trav[1].out) = 1
    /\ trav[2].op = "iter" /\ trav[2].it = 1 /\ BranchDone(2)
    /\ trav[2].out # <<>>

\* collect() of traversal u returns in this step.
Returns(u) == Running(u, "collect") /\ trav'[u].st = "done"

C23_Turn ==
    /\ \A u \in Trav : Returns(u) =>
            /\ trav'[u].out = Elems(source, StagesOf(u))
            /\ \A t \in Trav :
                    (t # u /\ Finished(t) /\ trav[t].it = trav[u].it
                        /\ trav[t].out # Elems(source, StagesOf(t))) =>
                        trav'[u].out # trav[t].out
    /\ source' # source => (iters' = iters /\ trav' = trav)
    /\ iters' # iters => (Unstarted /\ source' = source)

\* C23: fromArray keeps the caller's array, not a copy: a collect() made
\* after the array was changed (an element appended, removed or replaced)
\* returns the array's contents as they then are, so it differs from an
\* earlier collect() on the same Iter whenever the array does; changing the
\* array changes neither the Iter nor a result already returned, and no
\* traversal changes the Iter.
C23_ArrayByReference == [][C23_Turn]_vars

C23_Witness ==
    /\ Finished(1) /\ Finished(2)
    /\ trav[1].it = trav[2].it
    /\ Len(iters[1]) = 1
    /\ Len(log[0]) = 2
    /\ log[0][1].ev = "push" /\ log[0][2].ev = "set"
    /\ trav[1].out # trav[2].out
    /\ Len(trav[1].out) = 2 /\ Len(trav[2].out) = 3
    /\ trav[2].out = Elems(source, iters[1])

=============================================================================
